---- MODULE Spec2Model ----
(***************************************************************************)
(* Power-analysis core of poweranalyses.org (src/power/src/power.rs):      *)
(* construction of a TestKind from a name token and a field lookup, the    *)
(* mapping of a design to its null and alternative distribution, the       *)
(* closed-form operations alpha and power, and the solver-driven           *)
(* operations n (windowed sweep) and es (single bracket).                  *)
(*                                                                         *)
(* f64 values are modelled as exact extended rationals <<num, den>> with   *)
(* den >= 0: <<0,0>> is NaN, <<1,0>> is +inf, <<-1,0>> is -inf.  Rounding  *)
(* of binary floating point is not modelled.                               *)
(***************************************************************************)
EXTENDS Integers, Sequences, FiniteSets, TLC

VARIABLES
    op,         \* the operation in progress / finished
    text,       \* from_str: the name token
    data,       \* from_str: the field lookup (field name -> JSON value)
    kind,       \* from_str: its outcome (Ok variant, Err message, or panic)
    design,     \* the TestKind the orchestrator works on
    tail,       \* Tail::OneSided | Tail::TwoSided
    nIn,        \* argument n
    esIn,       \* argument es
    alphaIn,    \* argument alpha
    powerIn,    \* argument power
    engine,     \* the distribution engine's cdf of each distribution in play
    d0,         \* the null distribution last constructed
    d1,         \* the alternative distribution last constructed
    out,        \* value returned by alpha / power
    lower,      \* n: lower bound of the window the sweep is at
    calls,      \* n / es: the root-finder calls made so far, in order
    built,      \* n / es: distributions constructed during the last call
    result      \* n / es: the value returned

vars == <<op, text, data, kind, design, tail, nIn, esIn, alphaIn, powerIn,
          engine, d0, d1, out, lower, calls, built, result>>

None == "none"

-----------------------------------------------------------------------------
(* f64 arithmetic on extended rationals                                     *)

Abs(x) == IF x < 0 THEN -x ELSE x

Sgn(x) == IF x < 0 THEN -1 ELSE IF x > 0 THEN 1 ELSE 0

RECURSIVE Gcd(_, _)
Gcd(a, b) == IF b = 0 THEN a ELSE Gcd(b, a % b)

\* The canonical form of num/den: lowest terms, den >= 0.
Rat(num, den) ==
    IF den = 0 THEN <<Sgn(num), 0>>
    ELSE LET g == Gcd(Abs(num), Abs(den))
             s == Sgn(den)
         IN  <<(s * num) \div g, (s * den) \div g>>

F(i) == <<i, 1>>
NaN == <<0, 0>>
PosInf == <<1, 0>>
NegInf == <<-1, 0>>

IsNaN(x) == x = NaN
IsFinite(x) == x[2] # 0

FNeg(a) == <<-a[1], a[2]>>

FAdd(a, b) ==
    IF IsNaN(a) \/ IsNaN(b) THEN NaN
    ELSE IF ~IsFinite(a) /\ ~IsFinite(b) THEN (IF a = b THEN a ELSE NaN)
    ELSE IF ~IsFinite(a) THEN a
    ELSE IF ~IsFinite(b) THEN b
    ELSE Rat(a[1] * b[2] + b[1] * a[2], a[2] * b[2])

FSub(a, b) == FAdd(a, FNeg(b))

\* The product, with common factors cancelled before multiplying.
FMul(a, b) ==
    IF IsNaN(a) \/ IsNaN(b) THEN NaN
    ELSE LET p == Rat(a[1], b[2])
             q == Rat(b[1], a[2])
         IN  Rat(p[1] * q[1], p[2] * q[2])

\* IEEE division: x/0 is +-inf for x # 0 and NaN for x = 0 (no signed zero).
FDiv(a, b) ==
    IF IsNaN(a) \/ IsNaN(b) THEN NaN
    ELSE Rat(a[1] * b[2] * (IF b[1] < 0 THEN -1 ELSE 1), a[2] * Abs(b[1]))

\* IEEE comparison: every comparison with NaN is false.
FLess(a, b) ==
    /\ ~IsNaN(a)
    /\ ~IsNaN(b)
    /\ IF IsFinite(a) /\ IsFinite(b)
       THEN a[1] * b[2] < b[1] * a[2]
       ELSE (IF IsFinite(a) THEN 0 ELSE a[1]) < (IF IsFinite(b) THEN 0 ELSE b[1])

FLeq(a, b) == ~IsNaN(a) /\ ~IsNaN(b) /\ ~FLess(b, a)

\* n.ceil() as i64 for a finite value.
Ceil(a) == -((-a[1]) \div a[2])

-----------------------------------------------------------------------------
(* Field lookup and number parsing (serde_json::Value, str::parse)          *)

Digit == {"0", "1", "2", "3", "4", "5", "6", "7", "8", "9"}

DigitVal(c) ==
    CASE c = "0" -> 0 [] c = "1" -> 1 [] c = "2" -> 2 [] c = "3" -> 3
      [] c = "4" -> 4 [] c = "5" -> 5 [] c = "6" -> 6 [] c = "7" -> 7
      [] c = "8" -> 8 [] c = "9" -> 9

RECURSIVE DigitsVal(_)
DigitsVal(s) ==
    IF s = <<>> THEN 0
    ELSE 10 * DigitsVal(SubSeq(s, 1, Len(s) - 1)) + DigitVal(s[Len(s)])

RECURSIVE Pow10(_)
Pow10(k) == IF k = 0 THEN 1 ELSE 10 * Pow10(k - 1)

AllDigits(s) == \A i \in 1..Len(s) : s[i] \in Digit

HasSign(s) == s # <<>> /\ s[1] \in {"-", "+"}
Unsigned(s) == IF HasSign(s) THEN Tail(s) ELSE s
SignOf(s) == IF s # <<>> /\ s[1] = "-" THEN -1 ELSE 1

Ok(v) == [tag |-> "Ok", val |-> v, msg |-> <<>>]
Err(m) == [tag |-> "Err", val |-> None, msg |-> m]
Panic(m) == [tag |-> "Panic", val |-> None, msg |-> m]

\* <i64 as FromStr>: an optional sign followed by at least one digit.
StrParseI64(s) ==
    LET b == Unsigned(s)
    IN  IF b # <<>> /\ AllDigits(b) THEN Ok(SignOf(s) * DigitsVal(b))
        ELSE Err(<<"ParseIntError">>)

\* <f64 as FromStr> on the decimal texts of the model: an optional sign,
\* digits, at most one ".", and at least one digit in all.
StrParseF64(s) ==
    LET b == Unsigned(s)
        dots == {i \in 1..Len(b) : b[i] = "."}
        cut == IF dots = {} THEN Len(b) + 1 ELSE CHOOSE i \in dots : TRUE
        ip == SubSeq(b, 1, cut - 1)
        fp == SubSeq(b, cut + 1, Len(b))
    IN  IF /\ Cardinality(dots) <= 1
           /\ AllDigits(ip) /\ AllDigits(fp)
           /\ Len(ip) + Len(fp) >= 1
        THEN Ok(Rat(SignOf(s) * (DigitsVal(ip) * Pow10(Len(fp)) + DigitsVal(fp)),
                    Pow10(Len(fp))))
        ELSE Err(<<"ParseFloatError">>)

Str(s) == [json |-> "String", text |-> s]
Num(s) == [json |-> "Number", text |-> s]

parse_i64(dat, field) ==
    IF field \notin DOMAIN dat THEN Err(<<"Missing field", field>>)
    ELSE IF dat[field].json # "String"
         THEN Panic(<<"{field} could not be converted to a str", field>>)
    ELSE LET r == StrParseI64(dat[field].text)
         IN  IF r.tag = "Ok" THEN r
             ELSE Panic(<<"{field} could not be converted to an integer", field>>)

parse_f64(dat, field) ==
    IF field \notin DOMAIN dat THEN Err(<<"Missing field", field>>)
    ELSE IF dat[field].json # "String"
         THEN Panic(<<"{field} could not be converted to a str", field>>)
    ELSE LET r == StrParseF64(dat[field].text)
         IN  IF r.tag = "Ok" THEN r
             ELSE Panic(<<"{field} could not be converted to a floating number", field>>)

\* Result::unwrap over the parse calls of one match arm, in program order:
\* the first call that is not Ok aborts the construction.
Unwrapped(rs) ==
    LET bad == {i \in 1..Len(rs) : rs[i].tag # "Ok"}
    IN  IF bad = {} THEN Ok(None)
        ELSE LET i == CHOOSE j \in bad : \A l \in bad : j <= l
             IN  Panic(rs[i].msg)

EpsilonMessage == <<"lower bound of epsilon corresponds to 1 / (number of measurements - 1)">>

\* epsilon < (1.0 / (m as f64 - 1.0))   (EpsilonTooSmall_orEqual: <= for <.)
EpsilonTooSmall_orEqual(epsilon, m) == FLeq(epsilon, FDiv(F(1), FSub(F(m), F(1))))

EpsilonTooSmall(epsilon, m) == FLess(epsilon, FDiv(F(1), FSub(F(m), F(1))))

\* The arm of every other name token.  (UnknownTest_defaults: a design is
\* substituted for the error.)
UnknownTest_defaults(txt) == Ok([variant |-> "OneSampleTTest"])

UnknownTest(txt) == Err(<<"Unknown test", txt>>)

\* The value of parse call i of an arm (read only when all calls are Ok).
V(rs, i) == rs[i].val

from_str(txt, dat) ==
    CASE txt = "oneSampleTTest" -> Ok([variant |-> "OneSampleTTest"])
      [] txt = "independentSamplesTTest" -> Ok([variant |-> "IndependentSamplesTTest"])
      [] txt = "goodnessOfFitChisqTest" ->
            LET rs == <<parse_i64(dat, "df")>>
            IN  IF Unwrapped(rs).tag # "Ok" THEN Unwrapped(rs)
                ELSE Ok([variant |-> "GoodnessOfFitChisqTest", df |-> V(rs, 1)])
      [] txt = "deviationFromZeroMultipleRegression" ->
            LET rs == <<parse_i64(dat, "nPredictors")>>
            IN  IF Unwrapped(rs).tag # "Ok" THEN Unwrapped(rs)
                ELSE Ok([variant |-> "DeviationFromZeroMultipleRegression",
                         n_predictors |-> V(rs, 1)])
      [] txt = "increaseMultipleRegression" ->
            LET rs == <<parse_i64(dat, "rho"), parse_i64(dat, "q")>>
            IN  IF Unwrapped(rs).tag # "Ok" THEN Unwrapped(rs)
                ELSE Ok([variant |-> "IncreaseMultipleRegression",
                         rho |-> V(rs, 1), q |-> V(rs, 2)])
      [] txt = "ANCOVA" ->
            LET rs == <<parse_i64(dat, "k"), parse_i64(dat, "q"), parse_i64(dat, "p")>>
            IN  IF Unwrapped(rs).tag # "Ok" THEN Unwrapped(rs)
                ELSE Ok([variant |-> "ANCOVA",
                         k |-> V(rs, 1), q |-> V(rs, 2), p |-> V(rs, 3)])
      [] txt = "oneWayANOVA" ->
            LET rs == <<parse_i64(dat, "k")>>
            IN  IF Unwrapped(rs).tag # "Ok" THEN Unwrapped(rs)
                ELSE Ok([variant |-> "OneWayANOVA", k |-> V(rs, 1)])
      [] txt = "twoWayANOVA" ->
            LET rs == <<parse_i64(dat, "k"), parse_i64(dat, "q")>>
            IN  IF Unwrapped(rs).tag # "Ok" THEN Unwrapped(rs)
                ELSE Ok([variant |-> "TwoWayANOVA", k |-> V(rs, 1), q |-> V(rs, 2)])
      [] txt = "betweenRepeatedANOVA" ->
            LET rs == <<parse_i64(dat, "k"), parse_i64(dat, "m"), parse_f64(dat, "rho")>>
            IN  IF Unwrapped(rs).tag # "Ok" THEN Unwrapped(rs)
                ELSE Ok([variant |-> "BetweenRepeatedANOVA",
                         k |-> V(rs, 1), m |-> V(rs, 2), rho |-> V(rs, 3)])
      [] txt = "withinRepeatedANOVA" ->
            LET rs == <<parse_i64(dat, "k"), parse_i64(dat, "m"),
                        parse_f64(dat, "rho"), parse_f64(dat, "epsilon")>>
            IN  IF Unwrapped(rs).tag # "Ok" THEN Unwrapped(rs)
                ELSE IF EpsilonTooSmall(V(rs, 4), V(rs, 2)) THEN Err(EpsilonMessage)
                ELSE Ok([variant |-> "WithinRepeatedANOVA", k |-> V(rs, 1),
                         m |-> V(rs, 2), rho |-> V(rs, 3), epsilon |-> V(rs, 4)])
      [] txt = "withinBetweenRepeatedANOVA" ->
            LET rs == <<parse_i64(dat, "k"), parse_i64(dat, "m"),
                        parse_f64(dat, "rho"), parse_f64(dat, "epsilon")>>
            IN  IF Unwrapped(rs).tag # "Ok" THEN Unwrapped(rs)
                ELSE IF EpsilonTooSmall(V(rs, 4), V(rs, 2)) THEN Err(EpsilonMessage)
                ELSE Ok([variant |-> "WithinBetweenRepeatedANOVA", k |-> V(rs, 1),
                         m |-> V(rs, 2), rho |-> V(rs, 3), epsilon |-> V(rs, 4)])
      [] OTHER -> UnknownTest(txt)

-----------------------------------------------------------------------------
(* Construction requests                                                    *)

Fields == {"df", "nPredictors", "rho", "q", "k", "p", "m", "epsilon"}

SupportedTokens ==
    {"oneSampleTTest", "independentSamplesTTest", "goodnessOfFitChisqTest",
     "deviationFromZeroMultipleRegression", "increaseMultipleRegression",
     "ANCOVA", "oneWayANOVA", "twoWayANOVA", "betweenRepeatedANOVA",
     "withinRepeatedANOVA", "withinBetweenRepeatedANOVA"}

\* Name tokens a caller may send: the supported ones and some that are not.
Tokens == SupportedTokens \cup {"ancova", "pairedTTest", ""}

Absent == [json |-> "Absent", text |-> <<>>]

\* The values a caller may send for each field (besides leaving it out).
Sent(field) ==
    CASE field = "df" -> {Str(<<"2">>), Str(<<"x">>)}
      [] field = "nPredictors" -> {Str(<<"2">>)}
      [] field = "q" -> {Str(<<"1">>)}
      [] field = "p" -> {Str(<<"-", "1">>)}
      [] field = "k" -> {Str(<<"3">>), Num(<<"3">>)}
      [] field = "m" -> {Str(<<"1">>), Str(<<"2">>), Str(<<"4">>), Str(<<"4", ".", "0">>)}
      [] field = "rho" -> {Str(<<"3">>), Str(<<"0", ".", "5">>)}
      [] field = "epsilon" ->
            {Str(<<"0", ".", "1">>), Str(<<"0", ".", "4">>), Str(<<"1">>), Str(<<>>)}

Options(field) == Sent(field) \cup {Absent}

\* The lookup holding exactly the fields of choice c that are not Absent.
Lookup(c) == [f \in {g \in Fields : c[g] # Absent} |-> c[f]]

Idle ==
    /\ op = "idle" /\ text = None /\ data = None /\ kind = None
    /\ design = None /\ tail = None
    /\ nIn = None /\ esIn = None /\ alphaIn = None /\ powerIn = None
    /\ engine = None /\ d0 = None /\ d1 = None /\ out = None
    /\ lower = None /\ calls = <<>> /\ built = {} /\ result = None

\* TestKind::from_str(text, data): one construction request.
FromStr ==
    /\ op = "idle"
    /\ \E t \in Tokens :
       \E vdf \in Options("df"), vnp \in Options("nPredictors"),
          vq \in Options("q"), vp \in Options("p") :
       \E vk \in Options("k"), vm \in Options("m"),
          vrho \in Options("rho"), veps \in Options("epsilon") :
          LET c == [f \in Fields |->
                      CASE f = "df" -> vdf [] f = "nPredictors" -> vnp
                        [] f = "q" -> vq [] f = "p" -> vp [] f = "k" -> vk
                        [] f = "m" -> vm [] f = "rho" -> vrho
                        [] f = "epsilon" -> veps]
          IN  /\ text' = t
              /\ data' = Lookup(c)
              /\ kind' = from_str(t, Lookup(c))
    /\ op' = "from_str"
    /\ UNCHANGED <<design, tail, nIn, esIn, alphaIn, powerIn, engine, d0, d1,
                   out, lower, calls, built, result>>

SpecConstruct == Idle /\ [][FromStr]_vars

-----------------------------------------------------------------------------
(* Distributions (dist crate) and the design -> distribution mapping        *)

\* n.sqrt() * es, kept exact as the pair (radicand, factor); zero when either
\* is zero, NaN for a negative radicand.
SqrtTimes(x, c) ==
    IF IsNaN(x) \/ IsNaN(c) \/ FLess(x, F(0)) THEN [sqrt_of |-> NaN, times |-> NaN]
    ELSE IF x = F(0) \/ c = F(0) THEN [sqrt_of |-> F(0), times |-> F(0)]
    ELSE [sqrt_of |-> x, times |-> c]

NoncentralT(v, lambda) == [family |-> "t", df |-> <<v>>, ncp |-> lambda]
NoncentralF(dd1, dd2, lambda) == [family |-> "F", df |-> <<dd1, dd2>>, ncp |-> lambda]
NoncentralChisq(df, lambda) == [family |-> "chisq", df |-> <<df>>, ncp |-> lambda]

ZeroNcp(family) == IF family = "t" THEN SqrtTimes(F(0), F(0)) ELSE F(0)

\* Dist::central_distribution: same family and degrees of freedom,
\* noncentrality zero.
central_distribution(d) == [d EXCEPT !.ncp = ZeroNcp(d.family)]

\* es.powi(2)
Powi2(x) == FMul(x, x)

\* The numerator degrees of freedom of WithinBetweenRepeatedANOVA.
\* (WithinBetweenD1_asWithin: the within-factor formula is used.)
WithinBetweenD1_asWithin(t) == FMul(FSub(F(t.m), F(1)), t.epsilon)

WithinBetweenD1(t) == FMul(FMul(FSub(F(t.k), F(1)), FSub(F(t.m), F(1))), t.epsilon)

alternative_distribution(t, n, es) ==
    CASE t.variant = "OneSampleTTest" ->
            NoncentralT(FSub(n, F(1)), SqrtTimes(n, es))
      [] t.variant = "IndependentSamplesTTest" ->
            LET v == FSub(n, F(2))
            IN  NoncentralT(v, SqrtTimes(FDiv(n, F(2)), es))
      [] t.variant = "DeviationFromZeroMultipleRegression" ->
            NoncentralF(F(t.n_predictors),
                        FSub(FSub(n, F(t.n_predictors)), F(1)),
                        FMul(Powi2(es), n))
      [] t.variant = "GoodnessOfFitChisqTest" ->
            NoncentralChisq(F(t.df), FMul(Powi2(es), n))
      [] t.variant = "IncreaseMultipleRegression" ->
            NoncentralF(F(t.q), FSub(FSub(n, F(t.rho)), F(1)), FMul(Powi2(es), n))
      [] t.variant = "ANCOVA" ->
            NoncentralF(F(t.q),
                        FSub(FSub(FSub(n, F(t.k)), F(t.p)), F(1)),
                        FMul(Powi2(es), n))
      [] t.variant = "OneWayANOVA" ->
            NoncentralF(FSub(F(t.k), F(1)), FSub(n, F(t.k)), FMul(Powi2(es), n))
      [] t.variant = "TwoWayANOVA" ->
            NoncentralF(F(t.q), FSub(n, F(t.k)), FMul(Powi2(es), n))
      [] t.variant = "BetweenRepeatedANOVA" ->
            LET u == FDiv(F(t.m), FAdd(F(1), FMul(FSub(F(t.m), F(1)), t.rho)))
            IN  NoncentralF(FSub(F(t.k), F(1)), FSub(n, F(t.k)),
                            FMul(FMul(Powi2(es), u), n))
      [] t.variant = "WithinRepeatedANOVA" ->
            LET u == FDiv(F(t.m), FSub(F(1), t.rho))
            IN  NoncentralF(FMul(FSub(F(t.m), F(1)), t.epsilon),
                            FMul(FMul(FSub(n, F(t.k)), FSub(F(t.m), F(1))), t.epsilon),
                            FMul(FMul(FMul(Powi2(es), u), n), t.epsilon))
      [] t.variant = "WithinBetweenRepeatedANOVA" ->
            LET u == FDiv(F(t.m), FSub(F(1), t.rho))
            IN  NoncentralF(WithinBetweenD1(t),
                            FMul(FMul(FSub(n, F(t.k)), FSub(F(t.m), F(1))), t.epsilon),
                            FMul(FMul(FMul(Powi2(es), u), n), t.epsilon))

\* (null_distribution_notCentral: the alternative is returned as it is.)
null_distribution_notCentral(t, n, es) == alternative_distribution(t, n, es)

null_distribution(t, n, es) == central_distribution(alternative_distribution(t, n, es))

\* The parameters the engine accepts: every degree of freedom > 0 and, for
\* F and chi-squared, noncentrality >= 0.
ValidParams(d) ==
    /\ \A i \in 1..Len(d.df) : FLess(F(0), d.df[i])
    /\ IF d.family = "t" THEN ~IsNaN(d.ncp.times) ELSE FLeq(F(0), d.ncp)

\* The engine's upper-tail probability at x is a strictly decreasing
\* bijection of the reals onto (0,1), placed per distribution at
\* engine[d]; here 1/(2(1+z)) for z >= 0 and 1 - 1/(2(1-z)) for z < 0.
UpperTail(z) ==
    IF IsNaN(z) THEN NaN
    ELSE IF FLess(z, F(0))
         THEN FSub(F(1), FDiv(F(1), FMul(F(2), FSub(F(1), z))))
         ELSE FDiv(F(1), FMul(F(2), FAdd(F(1), z)))

UpperTailInverse(p) ==
    IF IsNaN(p) \/ FLess(p, F(0)) \/ FLess(F(1), p) THEN NaN
    ELSE IF FLess(<<1, 2>>, p)
         THEN FSub(F(1), FDiv(F(1), FMul(F(2), FSub(F(1), p))))
         ELSE FSub(FDiv(F(1), FMul(F(2), p)), F(1))

\* Dist::cdf(x, lower_tail) and Dist::quantile(p, lower_tail); invalid
\* parameters yield NaN.
cdf(d, x, lower_tail) ==
    IF ~ValidParams(d) THEN NaN
    ELSE LET up == UpperTail(FSub(x, engine[d]))
         IN  IF lower_tail THEN FSub(F(1), up) ELSE up

quantile(d, p, lower_tail) ==
    IF ~ValidParams(d) THEN NaN
    ELSE FAdd(UpperTailInverse(IF lower_tail THEN FSub(F(1), p) ELSE p), engine[d])

-----------------------------------------------------------------------------
(* Closed-form operations                                                   *)

\* (alpha_neverDoubles: the two-sided doubling is left out.)
alpha_neverDoubles(t, tl, n, pw, es) ==
    LET dd0 == null_distribution(t, n, es)
        dd1 == alternative_distribution(t, n, es)
        critical_value == quantile(dd1, pw, FALSE)
    IN  cdf(dd0, critical_value, FALSE)

alpha(t, tl, n, pw, es) ==
    LET dd0 == null_distribution(t, n, es)
        dd1 == alternative_distribution(t, n, es)
        critical_value == quantile(dd1, pw, FALSE)
        right_tail == cdf(dd0, critical_value, FALSE)
    IN  IF tl = "OneSided" THEN right_tail ELSE FMul(F(2), right_tail)

power(t, tl, n, al, es) ==
    LET dd0 == null_distribution(t, n, es)
        dd1 == alternative_distribution(t, n, es)
        right_tail == IF tl = "OneSided" THEN al ELSE FDiv(al, F(2))
        critical_value == quantile(dd0, right_tail, FALSE)
    IN  cdf(dd1, critical_value, FALSE)

-----------------------------------------------------------------------------
(* Requests to the orchestrator                                             *)

\* Integer fields of a design range over 1..MaxField.
MaxField == 2

FieldInts == 1..MaxField
RhoValues == {<<-1, 2>>, F(0), <<1, 2>>}
EpsilonValues == {<<1, 2>>, F(1)}

\* The designs from_str can return, over the field values above.
Designs ==
    {[variant |-> "OneSampleTTest"], [variant |-> "IndependentSamplesTTest"]}
    \cup {[variant |-> "GoodnessOfFitChisqTest", df |-> i] : i \in FieldInts}
    \cup {[variant |-> "DeviationFromZeroMultipleRegression", n_predictors |-> i] :
             i \in FieldInts}
    \cup {[variant |-> "IncreaseMultipleRegression", rho |-> i, q |-> j] :
             i \in FieldInts, j \in FieldInts}
    \cup {[variant |-> "ANCOVA", k |-> i, q |-> j, p |-> l] :
             i \in FieldInts, j \in FieldInts, l \in FieldInts}
    \cup {[variant |-> "OneWayANOVA", k |-> i] : i \in FieldInts}
    \cup {[variant |-> "TwoWayANOVA", k |-> i, q |-> j] :
             i \in FieldInts, j \in FieldInts}
    \cup {[variant |-> "BetweenRepeatedANOVA", k |-> i, m |-> j, rho |-> r] :
             i \in FieldInts, j \in FieldInts, r \in RhoValues}
    \cup {[variant |-> v, k |-> x[1], m |-> x[2], rho |-> x[3], epsilon |-> x[4]] :
             v \in {"WithinRepeatedANOVA", "WithinBetweenRepeatedANOVA"},
             x \in {y \in FieldInts \X FieldInts \X RhoValues \X EpsilonValues :
                      ~EpsilonTooSmall(y[4], y[2])}}

Tails == {"OneSided", "TwoSided"}
NValues == {F(1), <<5, 2>>, F(4), F(50)}
EsValues == {F(0), <<1, 2>>, <<4, 5>>}
PowerValues == {<<1, 5>>, <<4, 5>>, <<19, 20>>}
Placements == {F(0), <<3, 2>>}

\* A request: a design, a tail, n, es and power, and an engine for the two
\* distributions of the request.
Ready ==
    /\ op = "ready" /\ text = None /\ data = None /\ kind = None
    /\ design \in Designs /\ tail \in Tails
    /\ nIn \in NValues /\ esIn \in EsValues /\ powerIn \in PowerValues
    /\ alphaIn = None
    /\ \E l0 \in Placements, l1 \in Placements :
          LET dd0 == null_distribution(design, nIn, esIn)
              dd1 == alternative_distribution(design, nIn, esIn)
          IN  engine = [d \in {dd0, dd1} |-> IF d = dd0 THEN l0 ELSE l1]
    /\ d0 = None /\ d1 = None /\ out = None
    /\ lower = None /\ calls = <<>> /\ built = {} /\ result = None

\* TestKind::alpha(tail, n, power, es)
Alpha ==
    /\ op = "ready"
    /\ d0' = null_distribution(design, nIn, esIn)
    /\ d1' = alternative_distribution(design, nIn, esIn)
    /\ out' = alpha(design, tail, nIn, powerIn, esIn)
    /\ op' = "alpha"
    /\ UNCHANGED <<text, data, kind, design, tail, nIn, esIn, alphaIn, powerIn,
                   engine, lower, calls, built, result>>

\* TestKind::power(tail, n, alpha, es), called on the alpha just computed.
Power ==
    /\ op = "alpha"
    /\ alphaIn' = out
    /\ d0' = null_distribution(design, nIn, esIn)
    /\ d1' = alternative_distribution(design, nIn, esIn)
    /\ out' = power(design, tail, nIn, out, esIn)
    /\ op' = "power"
    /\ UNCHANGED <<text, data, kind, design, tail, nIn, esIn, powerIn,
                   engine, lower, calls, built, result>>

Next == Alpha \/ Power

Spec == Ready /\ [][Next]_vars

-----------------------------------------------------------------------------
(* Claims about the distributions and the closed forms                      *)

\* The spec's table (4.3), on n = a/b, es = s1/s2 and epsilon = e1/e2.
TableFamily(t) ==
    CASE t.variant \in {"OneSampleTTest", "IndependentSamplesTTest"} -> "t"
      [] t.variant = "GoodnessOfFitChisqTest" -> "chisq"
      [] OTHER -> "F"

TableDf(t, n) ==
    LET a == n[1]
        b == n[2]
    IN  CASE t.variant = "OneSampleTTest" -> <<Rat(a - b, b)>>
          [] t.variant = "IndependentSamplesTTest" -> <<Rat(a - 2 * b, b)>>
          [] t.variant = "GoodnessOfFitChisqTest" -> <<F(t.df)>>
          [] t.variant = "DeviationFromZeroMultipleRegression" ->
                <<F(t.n_predictors), Rat(a - (t.n_predictors + 1) * b, b)>>
          [] t.variant = "IncreaseMultipleRegression" ->
                <<F(t.q), Rat(a - (t.rho + 1) * b, b)>>
          [] t.variant = "ANCOVA" -> <<F(t.q), Rat(a - (t.k + t.p + 1) * b, b)>>
          [] t.variant \in {"OneWayANOVA", "BetweenRepeatedANOVA"} ->
                <<F(t.k - 1), Rat(a - t.k * b, b)>>
          [] t.variant = "TwoWayANOVA" -> <<F(t.q), Rat(a - t.k * b, b)>>
          [] t.variant = "WithinRepeatedANOVA" ->
                <<Rat((t.m - 1) * t.epsilon[1], t.epsilon[2]),
                  Rat((a - t.k * b) * (t.m - 1) * t.epsilon[1], b * t.epsilon[2])>>
          [] t.variant = "WithinBetweenRepeatedANOVA" ->
                <<Rat((t.k - 1) * (t.m - 1) * t.epsilon[1], t.epsilon[2]),
                  Rat((a - t.k * b) * (t.m - 1) * t.epsilon[1], b * t.epsilon[2])>>

EsSquaredN == {"GoodnessOfFitChisqTest", "DeviationFromZeroMultipleRegression",
               "IncreaseMultipleRegression", "ANCOVA", "OneWayANOVA", "TwoWayANOVA"}

\* C6: for every design, n and es, null_distribution(n, es) is the central
\* counterpart of alternative_distribution(n, es): same family, same
\* degrees of freedom, noncentrality zero; it does not depend on es.
C6_NullIsCentralCounterpart ==
    op \in {"alpha", "power"} =>
        /\ d0.family = d1.family
        /\ d0.df = d1.df
        /\ d0.ncp = (IF d0.family = "t" THEN [sqrt_of |-> F(0), times |-> F(0)] ELSE F(0))
        /\ \A e \in EsValues : null_distribution(design, nIn, e) = d0

\* A request whose alternative is noncentral.
C6_Witness ==
    /\ op = "alpha" /\ design.variant = "OneWayANOVA" /\ d1.ncp = <<25, 2>> /\ d0 # d1

\* C7: for each of the eleven variants and every n, the alternative
\* distribution has the family and degrees of freedom of the spec's table,
\* and noncentrality es^2 * n for the chi-squared, regression, ANCOVA,
\* one-way and two-way designs.
C7_AlternativeMatchesTable ==
    op \in {"alpha", "power"} =>
        /\ d1.family = TableFamily(design)
        /\ d1.df = TableDf(design, nIn)
        /\ design.variant \in EsSquaredN =>
              d1.ncp = Rat(esIn[1] * esIn[1] * nIn[1], esIn[2] * esIn[2] * nIn[2])

\* A within-between design with k = 2 at a fractional n.
C7_Witness ==
    /\ op = "alpha" /\ design.variant = "WithinBetweenRepeatedANOVA"
    /\ design.k = 2 /\ nIn = <<5, 2>> /\ d1.df[2] = <<1, 2>>

\* C8: closed-form round trip: for every design, both tails and every n, es
\* and power for which the distributions are valid,
\* power(tail, n, alpha(tail, n, power, es), es) = power.
C8_RoundTrip ==
    op = "power" /\ ValidParams(d0) /\ ValidParams(d1) => out = powerIn

\* A two-sided round trip whose alpha exceeds the one-sided one.
C8_Witness ==
    /\ op = "power" /\ tail = "TwoSided" /\ ValidParams(d0) /\ ValidParams(d1)
    /\ d0 # d1 /\ engine[d0] # engine[d1]
    /\ out = powerIn /\ powerIn = <<19, 20>>

-----------------------------------------------------------------------------
(* Solver-driven operations: n (windowed sweep) and es (single bracket)     *)

step_size == 20
OuterBound == 1000
FailureValue == -111

\* 0.001f64 and 8f64, the bracket of es.
EsLower == <<1, 1000>>
EsUpper == F(8)

\* Roots the finder may report inside a bracket: a + j (b - a) / GridSteps.
GridSteps == 3

Grid(a, b) ==
    {FAdd(a, FDiv(FMul(F(j), FSub(b, a)), F(GridSteps))) : j \in 0..GridSteps}

SearchOk(x) == [ok |-> TRUE, x |-> x]
SearchError == [ok |-> FALSE, x |-> NaN]

\* roots::find_root_regula_falsi(a, b, f, conv), by what it can return.
\* fa and fb tell whether f(a) and f(b) are numbers.  With both numbers it
\* returns a root inside [a, b] or an error (no bracketing, no
\* convergence); a NaN at an end point passes its bracketing test and
\* comes back as Ok(NaN), unless the other end point is itself a root.
find_root_regula_falsi(a, b, fa, fb) ==
    IF fa /\ fb THEN {SearchError} \cup {SearchOk(x) : x \in Grid(a, b)}
    ELSE {SearchOk(NaN)}
         \cup (IF fa THEN {SearchOk(a)} ELSE {})
         \cup (IF fb THEN {SearchOk(b)} ELSE {})

\* Result::unwrap_or
unwrap_or(r, default) == IF r.ok THEN r.x ELSE default

\* Whether alpha(tail, n, power, es) is a number: the engine answers NaN
\* for parameters it does not accept.
AlphaIsNumber(t, n, es) ==
    /\ ValidParams(null_distribution(t, n, es))
    /\ ValidParams(alternative_distribution(t, n, es))

\* The distributions alpha constructs at candidate (n, es).
Constructed(t, n, es) ==
    {null_distribution(t, n, es), alternative_distribution(t, n, es)}

\* The candidates a finder call evaluates f at: a, then b unless a is
\* returned as the root, then the root it reports.
Candidates(a, b, root) ==
    IF root = SearchOk(a) THEN {a} ELSE {a, b} \cup (IF root.ok THEN {root.x} ELSE {})

\* n == -111.0 || n.is_nan()
IsSkipped(x) == x = F(FailureValue) \/ IsNaN(x)

\* n.ceil() as i64; the cast takes NaN to 0 (the finder reports no
\* infinite root).
\* (CeilAsI64_round: n.round(), half away from zero.)
CeilAsI64_round(x) ==
    IF IsNaN(x) THEN 0
    ELSE IF x[1] >= 0 THEN (2 * x[1] + x[2]) \div (2 * x[2])
    ELSE -((2 * (-x[1]) + x[2]) \div (2 * x[2]))

CeilAsI64(x) ==
    IF IsNaN(x) THEN 0
    ELSE Ceil(x)

\* (0..1000).step_by(step_size): whether the sweep has a window at lower.
\* (InRange_stopsEarly: the last window is left out.)
InRange_stopsEarly(lo) == lo < OuterBound - step_size

InRange(lo) == lo < OuterBound

SolveAlpha == {<<1, 20>>}
SolvePower == {<<19, 20>>}
SolveEs == {<<1, 2>>, <<4, 5>>}

\* A request for n (es given) or for es (n given).
Solving ==
    /\ op \in {"n", "es"} /\ text = None /\ data = None /\ kind = None
    /\ design \in Designs /\ tail \in Tails
    /\ alphaIn \in SolveAlpha /\ powerIn \in SolvePower
    /\ IF op = "n" THEN nIn = None /\ esIn \in SolveEs /\ lower = 0
                   ELSE nIn \in NValues /\ esIn = None /\ lower = None
    /\ engine = None /\ d0 = None /\ d1 = None /\ out = None
    /\ calls = <<>> /\ built = {} /\ result = None

\* TestKind::n, one pass of its loop: the finder is called on the window at
\* lower; a skipped root moves the sweep on, any other is returned.
NWindow ==
    /\ op = "n" /\ InRange(lower)
    /\ LET upper == lower + step_size
       IN  \E root \in find_root_regula_falsi(F(lower), F(upper),
                            AlphaIsNumber(design, F(lower), esIn),
                            AlphaIsNumber(design, F(upper), esIn)) :
              LET n == unwrap_or(root, F(FailureValue))
              IN  /\ calls' = Append(calls, [lower |-> F(lower), upper |-> F(upper),
                                             root |-> root])
                  /\ built' = UNION {Constructed(design, c, esIn) :
                                       c \in Candidates(F(lower), F(upper), root)}
                  /\ IF IsSkipped(n)
                     THEN lower' = upper /\ op' = "n" /\ result' = result
                     ELSE lower' = lower /\ op' = "n_done" /\ result' = CeilAsI64(n)
    /\ UNCHANGED <<text, data, kind, design, tail, nIn, esIn, alphaIn, powerIn,
                   engine, d0, d1, out>>

\* TestKind::n, after the last window: the failure value.
NExhausted ==
    /\ op = "n" /\ ~InRange(lower)
    /\ result' = FailureValue
    /\ op' = "n_done"
    /\ UNCHANGED <<text, data, kind, design, tail, nIn, esIn, alphaIn, powerIn,
                   engine, d0, d1, out, lower, calls, built>>

\* TestKind::es: one finder call on [0.001, 8].
Es ==
    /\ op = "es"
    /\ \E root \in find_root_regula_falsi(EsLower, EsUpper,
                        AlphaIsNumber(design, nIn, EsLower),
                        AlphaIsNumber(design, nIn, EsUpper)) :
          /\ calls' = <<[lower |-> EsLower, upper |-> EsUpper, root |-> root]>>
          /\ built' = UNION {Constructed(design, nIn, c) :
                               c \in Candidates(EsLower, EsUpper, root)}
          /\ result' = unwrap_or(root, F(FailureValue))
    /\ op' = "es_done"
    /\ UNCHANGED <<text, data, kind, design, tail, nIn, esIn, alphaIn, powerIn,
                   engine, d0, d1, out, lower>>

NextSolve == NWindow \/ NExhausted \/ Es

SpecSolve == Solving /\ [][NextSolve]_vars

-----------------------------------------------------------------------------
(* Claims about the solver-driven operations                                *)

\* A finder call that yielded a finite, non-NaN root.
Valid(call) == call.root.ok /\ IsFinite(call.root.x)

\* ceil(num/den) for den > 0, by its defining inequalities.
IsCeilOf(i, x) == i * x[2] >= x[1] /\ (i - 1) * x[2] < x[1]

\* C1: n sweeps the windows [0,20], [20,40], ..., [980,1000] in ascending
\* order and returns ceil(r) for the root r of the first window whose call
\* yields a finite, non-NaN root; no later window is evaluated once one has
\* succeeded, and windows whose call fails or yields NaN are skipped.
C1_FirstValidWindow ==
    op \in {"n", "n_done"} =>
        /\ \A i \in 1..Len(calls) :
              /\ calls[i].lower = <<20 * (i - 1), 1>>
              /\ calls[i].upper = <<20 * i, 1>>
              /\ 20 * i <= 1000
        /\ \A i \in 1..(Len(calls) - 1) : ~Valid(calls[i])
        /\ (calls # <<>> /\ Valid(calls[Len(calls)])) =>
              /\ op = "n_done"
              /\ IsCeilOf(result, calls[Len(calls)].root.x)
        /\ (op = "n" /\ calls # <<>>) => ~Valid(calls[Len(calls)])

\* The sweep returned from its fourth window, at a root that is no integer.
C1_Witness ==
    /\ op = "n_done" /\ Len(calls) = 4 /\ Valid(calls[4])
    /\ calls[4].root.x = <<200, 3>> /\ result = 67
    /\ calls[1].root = SearchOk(NaN) /\ calls[2].root = SearchError

C3_OnlyValidParameters ==
    op \in {"n", "n_done", "es_done"} =>
        /\ \A d \in built : ValidParams(d)
        /\ FLeq(F(0), powerIn) /\ FLeq(powerIn, F(1))

\* C10: every value n returns other than the failure value is an integer
\* in [0, 1000], every value es returns other than the failure value lies
\* in [0.001, 8], and the failure value is returned only when the search
\* found no root.
C10_FailureValueUnambiguous ==
    /\ op = "n_done" =>
          /\ result # -111 => result \in 0..1000
          /\ result = -111 => \A i \in 1..Len(calls) : ~Valid(calls[i])
    /\ op = "es_done" =>
          /\ result # <<-111, 1>> =>
                FLeq(<<1, 1000>>, result) /\ FLeq(result, <<8, 1>>)
          /\ result = <<-111, 1>> => ~calls[1].root.ok

-----------------------------------------------------------------------------
(* Claims about construction                                                *)

\* What the spec's table requires of each supported token: the fields and
\* their numeric type.
Required(t) ==
    CASE t \in {"oneSampleTTest", "independentSamplesTTest"} -> <<>>
      [] t = "goodnessOfFitChisqTest" -> <<<<"df", "int">>>>
      [] t = "deviationFromZeroMultipleRegression" -> <<<<"nPredictors", "int">>>>
      [] t = "increaseMultipleRegression" -> <<<<"rho", "int">>, <<"q", "int">>>>
      [] t = "ANCOVA" -> <<<<"k", "int">>, <<"q", "int">>, <<"p", "int">>>>
      [] t = "oneWayANOVA" -> <<<<"k", "int">>>>
      [] t = "twoWayANOVA" -> <<<<"k", "int">>, <<"q", "int">>>>
      [] t = "betweenRepeatedANOVA" ->
            <<<<"k", "int">>, <<"m", "int">>, <<"rho", "real">>>>
      [] t \in {"withinRepeatedANOVA", "withinBetweenRepeatedANOVA"} ->
            <<<<"k", "int">>, <<"m", "int">>, <<"rho", "real">>, <<"epsilon", "real">>>>

VariantOf(t) ==
    CASE t = "oneSampleTTest" -> "OneSampleTTest"
      [] t = "independentSamplesTTest" -> "IndependentSamplesTTest"
      [] t = "goodnessOfFitChisqTest" -> "GoodnessOfFitChisqTest"
      [] t = "deviationFromZeroMultipleRegression" -> "DeviationFromZeroMultipleRegression"
      [] t = "increaseMultipleRegression" -> "IncreaseMultipleRegression"
      [] t = "ANCOVA" -> "ANCOVA"
      [] t = "oneWayANOVA" -> "OneWayANOVA"
      [] t = "twoWayANOVA" -> "TwoWayANOVA"
      [] t = "betweenRepeatedANOVA" -> "BetweenRepeatedANOVA"
      [] t = "withinRepeatedANOVA" -> "WithinRepeatedANOVA"
      [] t = "withinBetweenRepeatedANOVA" -> "WithinBetweenRepeatedANOVA"

\* The numbers the texts of Sent denote, written out: the integer texts and
\* the decimal texts, each with its value.
IntTexts == {<<"1">>, <<"2">>, <<"3">>, <<"4">>, <<"-", "1">>}
IntOf(s) ==
    CASE s = <<"1">> -> 1 [] s = <<"2">> -> 2 [] s = <<"3">> -> 3
      [] s = <<"4">> -> 4 [] s = <<"-", "1">> -> -1
RealTexts == IntTexts \cup {<<"0", ".", "1">>, <<"0", ".", "4">>, <<"0", ".", "5">>,
                            <<"4", ".", "0">>}
RealOf(s) ==
    CASE s \in IntTexts -> <<IntOf(s), 1>>
      [] s = <<"0", ".", "1">> -> <<1, 10>>
      [] s = <<"0", ".", "4">> -> <<2, 5>>
      [] s = <<"0", ".", "5">> -> <<1, 2>>
      [] s = <<"4", ".", "0">> -> <<4, 1>>

FieldOk(dat, req) ==
    /\ req[1] \in DOMAIN dat
    /\ dat[req[1]].json = "String"
    /\ dat[req[1]].text \in (IF req[2] = "int" THEN IntTexts ELSE RealTexts)

FieldsOk(t, dat) == \A i \in 1..Len(Required(t)) : FieldOk(dat, Required(t)[i])

WithinTokens == {"withinRepeatedANOVA", "withinBetweenRepeatedANOVA"}

\* epsilon < 1/(m-1), cross-multiplied; for m = 1 the bound is 1/0 = +inf.
BelowBound(dat) ==
    LET e == RealOf(dat["epsilon"].text)
        mm == IntOf(dat["m"].text)
    IN  \/ mm = 1
        \/ mm > 1 /\ e[1] * (mm - 1) < e[2]
        \/ mm < 1 /\ e[1] * (mm - 1) > e[2]

\* C4: for every supported name token and every field lookup, from_str
\* returns a TestKind or a typed error value (MissingField for an absent
\* required field, UnparsableNumber for one that does not parse); it never
\* aborts and never substitutes a default.
C4_TypedErrorsNeverAbort ==
    op = "from_str" /\ text \in SupportedTokens =>
        /\ kind.tag \in {"Ok", "Err"}
        /\ kind.tag = "Ok" => FieldsOk(text, data)
        /\ \A i \in 1..Len(Required(text)) :
              (/\ Required(text)[i][1] \notin DOMAIN data
               /\ \A j \in 1..(i - 1) : FieldOk(data, Required(text)[j]))
              => kind = Err(<<"Missing field", Required(text)[i][1]>>)

\* C5: for withinRepeatedANOVA and withinBetweenRepeatedANOVA with all
\* fields present and well-formed, from_str fails with the constraint
\* violation exactly when epsilon < 1/(m-1) and otherwise returns the
\* variant carrying exactly the supplied k, m, rho and epsilon; no other
\* variant's construction yields the constraint violation.
C5_EpsilonLowerBound ==
    op = "from_str" =>
        /\ text \in WithinTokens /\ FieldsOk(text, data) =>
              kind = IF BelowBound(data)
                     THEN Err(EpsilonMessage)
                     ELSE Ok([variant |-> VariantOf(text),
                              k |-> IntOf(data["k"].text),
                              m |-> IntOf(data["m"].text),
                              rho |-> RealOf(data["rho"].text),
                              epsilon |-> RealOf(data["epsilon"].text)])
        /\ text \notin WithinTokens => kind.msg # EpsilonMessage

\* m = 4, epsilon = 0.1 (< 1/3) is rejected.
C5_Witness ==
    /\ op = "from_str" /\ text = "withinRepeatedANOVA" /\ FieldsOk(text, data)
    /\ data["m"].text = <<"4">> /\ data["epsilon"].text = <<"0", ".", "1">>
    /\ kind = Err(EpsilonMessage)

\* C9: from_str fails with UnknownTestName(name) for every name token that
\* is not one of the eleven supported ones, whatever the field lookup
\* holds, and for each supported token with valid fields it returns the
\* variant of that token and no other.
C9_UnknownNameAndDispatch ==
    op = "from_str" =>
        /\ text \notin SupportedTokens => kind = Err(<<"Unknown test", text>>)
        /\ text \in SupportedTokens =>
              /\ kind.msg # <<"Unknown test", text>>
              /\ kind.tag = "Ok" => kind.val.variant = VariantOf(text)
              /\ (/\ FieldsOk(text, data)
                  /\ text \in WithinTokens => ~BelowBound(data))
                 => kind.tag = "Ok"

\* An unsupported token sent with a lookup that holds every field.
C9_Witness ==
    /\ op = "from_str" /\ text = "ancova" /\ DOMAIN data = Fields
    /\ kind = Err(<<"Unknown test", "ancova">>)

====
